---- MODULE Spec2Model ----
(***************************************************************************)
(* Model of src/src/entity_matching.py: the candidate matcher              *)
(* (fuzzy_match_entities) and the oracle review step                       *)
(* (llm_review_ambiguous).                                                 *)
(*                                                                         *)
(* Text is modelled as a tuple of one-character strings, so that strip(),  *)
(* whitespace tokenisation and the similarity score are computed and not   *)
(* assumed.  A float score s is carried as the integer floor(100 * s)      *)
(* (hundredths of a point); for the name lengths used here this keeps      *)
(* both the order and the equality of scores.                              *)
(***************************************************************************)
EXTENDS Integers, Sequences, FiniteSets, TLC

VARIABLES
    \* ---- llm_review_ambiguous ------------------------------------------
    ambiguous_matches,   \* the input list (argument)
    max_to_review,       \* the cap K (argument)
    openai_client,       \* module global: "client" or "None" (lines 13-17)
    api_key,             \* os.getenv("OPENAI_API_KEY"): "set" or "None"
    to_review,           \* line 253
    remaining,           \* line 254
    llm_approved,        \* line 256 / 306
    still_ambiguous,     \* line 317
    log_file,            \* the lines of data/llm_match_logs.jsonl
    log_before,          \* the lines the file held when the review was called
    rpc,                 \* position in llm_review_ambiguous
    ri,                  \* 1-based position of the for loop of line 264
    calls,               \* the oracle's side: index of every item it was asked about
    outcomes,            \* what the environment did for each reviewed item
    approved_idx,        \* index in to_review of each element of llm_approved
    \* ---- fuzzy_match_entities ------------------------------------------
    abr_df,              \* registry rows (argument)
    cc_df,               \* web mention rows (argument)
    high_threshold,      \* argument
    low_threshold,       \* argument
    high_conf_matches,   \* line 132
    fuzzy_ambiguous,     \* line 133 (the function's local ambiguous_matches)
    unmatched_cc,        \* line 134
    scored,              \* pairs <<mention index, entity index>> given to token_sort_ratio
    mpc,                 \* position in fuzzy_match_entities
    \* ---- write_matches_to_db ------------------------------------------
    matches,             \* the list to write (argument)
    db,                  \* the committed contents of the two tables and their id sequence
    txn,                 \* the open transaction's view of them, "none" outside one
    db_before,           \* the committed contents when the writer was called
    wpc,                 \* position in write_matches_to_db
    wi,                  \* 1-based position of the for loop of line 386
    inserted_count,      \* line 384 / 420
    wfail,               \* the statement that raised in this call, "none" if none did
    runs,                \* calls of the writer so far
    \* ---- main ---------------------------------------------------------
    main_pc,             \* position in main
    summary              \* the counts printed at lines 447-454, "none" before

rvars == <<ambiguous_matches, max_to_review, openai_client, api_key, to_review,
           remaining, llm_approved, still_ambiguous, log_file, log_before, rpc,
           ri, calls, outcomes, approved_idx>>
mvars == <<abr_df, cc_df, high_threshold, low_threshold, high_conf_matches,
           fuzzy_ambiguous, unmatched_cc, scored, mpc>>
wvars == <<matches, db, txn, db_before, wpc, wi, inserted_count, wfail, runs>>
pvars == <<main_pc, summary>>
vars == <<rvars, mvars, wvars, pvars>>

\* ------------------------------------------------------------------ bounds
MaxCands == 2
MaxK == 2
MaxRegistry == 2
MaxMentions == 2
MaxRuns == 2

\* ------------------------------------------------------------ generic helpers
Min(a, b) == IF a < b THEN a ELSE b

SeqsUpTo(S, n) == UNION {[1..k -> S] : k \in 0..n}

\* Python list slicing s[:k] and s[k:] for k >= 0.
Take(s, k) == SubSeq(s, 1, Min(k, Len(s)))
Drop(s, k) == SubSeq(s, Min(k, Len(s)) + 1, Len(s))

\* Python "x in list" (element equality).
InList(x, s) == \E j \in 1..Len(s) : s[j] = x

RECURSIVE FilterNotIn(_, _)
\* [m for m in s if m not in t]
FilterNotIn(s, t) ==
    IF s = <<>> THEN <<>>
    ELSE IF InList(Head(s), t) THEN FilterNotIn(Tail(s), t)
         ELSE <<Head(s)>> \o FilterNotIn(Tail(s), t)

\* ------------------------------------------------------------ rows and candidates
\* A row of stg_commoncrawl_companies / stg_abr_entities (lines 50-88), reduced
\* to the key and the normalised name; the other columns take no part in any
\* decision of the matcher or of the review.
CcRow(id, name) == [commoncrawl_id |-> id, company_name_norm |-> name]
AbrRow(abn, name) == [abn |-> abn, entity_name_norm |-> name]

\* The candidate dict built at lines 165-170.
Candidate(cc, abr, score, method) ==
    [cc |-> cc, abr |-> abr, score |-> score, method |-> method]

\* Candidates offered to the review step.  The first two are what the matcher
\* emits; the third carries the oracle tag already (a list a caller feeds back).
ReviewCands ==
    { Candidate(CcRow(1, <<"a", " ", "b">>), AbrRow(1, <<"b", " ", "a">>), 10000,
                "fuzzy_name_ambiguous"),
      Candidate(CcRow(2, <<"a">>), AbrRow(1, <<"b", " ", "a">>), 5000,
                "fuzzy_name_ambiguous"),
      Candidate(CcRow(1, <<"a", " ", "b">>), AbrRow(1, <<"b", " ", "a">>), 10000,
                "llm_disambiguation") }

\* build_llm_prompt: the prompt text is a function of the two rows only
\* (neither the score nor the method tag is embedded).
build_llm_prompt(amb) ==
    [cc_name |-> amb.cc.company_name_norm,
     abr_abn |-> amb.abr.abn,
     abr_name_norm |-> amb.abr.entity_name_norm]

\* ------------------------------------------------------------ oracle responses
\* A JSON value as json.loads returns it, tagged with its Python type.
JBool(b) == [t |-> "bool", b |-> b, s |-> ""]
JStr(s) == [t |-> "str", b |-> FALSE, s |-> s]
JNone == [t |-> "None", b |-> FALSE, s |-> ""]
Absent == [t |-> "absent", b |-> FALSE, s |-> ""]

\* The text of a response: prose that is not JSON, a JSON array, or a JSON
\* object with (some of) the three fields; pad says whether the raw text has
\* surrounding whitespace.
Body(kind, pad, is_match, confidence, reason) ==
    [kind |-> kind, pad |-> pad, is_match |-> is_match,
     confidence |-> confidence, reason |-> reason]

Verdict(is_match, confidence) ==
    Body("object", FALSE, JBool(is_match), JStr(confidence), JStr("why"))

Bodies ==
    { Body("prose", FALSE, Absent, Absent, Absent),
      Body("array", FALSE, Absent, Absent, Absent),
      Body("object", TRUE, JBool(TRUE), JStr("high"), JStr("why")),
      Verdict(TRUE, "medium"),
      Verdict(TRUE, "low"),
      Verdict(FALSE, "high"),
      Body("object", FALSE, JStr("false"), JStr("high"), JStr("why")),
      Verdict(TRUE, "HIGH"),
      Body("object", FALSE, JBool(TRUE), JStr("high"), Absent),
      Body("object", FALSE, JBool(TRUE), Absent, JStr("why")),
      Body("object", FALSE, Absent, JStr("high"), JStr("why")) }

\* What the environment does for one reviewed item: the call raises; or it
\* returns a response whose message content is None; or it returns a text
\* body, and the append to the log file succeeds ("ok"), raises with nothing
\* written ("fail"), or raises after part of the record reached the file
\* ("partial": the buffered write is flushed when the with-block closes).
Outcome(call, content, append) == [call |-> call, content |-> content, append |-> append]

OracleOutcomes ==
    { Outcome("raise", JNone, "none"), Outcome("ok", JNone, "none") }
    \cup { Outcome("ok", b, "ok") : b \in Bodies }
    \cup { Outcome("ok", Verdict(TRUE, "high"), "fail"),
           Outcome("ok", Verdict(TRUE, "high"), "partial") }

\* str.strip() of a response text.
StripBody(b) == [b EXCEPT !.pad = FALSE]

\* str.lower() on the confidence strings that occur.
Lower(s) == IF s = "HIGH" THEN "high" ELSE s

\* bool(x) of a JSON value (line 300): None and "" are falsy, any other string truthy.
PyBool(v) ==
    CASE v.t = "bool" -> v.b
      [] v.t = "str" -> v.s # ""
      [] OTHER -> FALSE

\* str(x) of a JSON value (line 301).
PyStr(v) ==
    CASE v.t = "str" -> v.s
      [] v.t = "bool" -> IF v.b THEN "True" ELSE "False"
      [] OTHER -> "None"

\* dict.get(key, default): the default only when the key is absent.
DictGet(v, default) == IF v.t = "absent" THEN default ELSE v

\* Lines 299-303 on a logged body: "error" when json.loads or .get raises,
\* else whether the acceptance test of line 303 passes.
AcceptTest(is_match, confidence) == is_match /\ confidence \in {"high", "medium"}

Decide(content) ==
    IF content.kind = "prose" THEN "error"
    ELSE IF content.kind # "object" THEN "error"
    ELSE LET is_match == PyBool(DictGet(content.is_match, JNone))
             confidence == Lower(PyStr(DictGet(content.confidence, JStr(""))))
         IN IF AcceptTest(is_match, confidence) THEN "accept" ELSE "reject"

\* The JSON line written at lines 286-296.
LogRecord(prompt, content) == [prompt |-> prompt, response |-> content]

\* The end of the file after a write that failed part-way: the beginnings of
\* the records recs, with no newline after them.
Fragment(recs) == [cut |-> recs]

\* A line that holds such beginnings and then a whole record.
Garbled(recs, rec) == [cut |-> recs, then |-> rec]

IsFragment(line) == DOMAIN line = {"cut"}

\* open("a") and a complete write (lines 286-296): the record and its newline
\* go to the end of the file, after whatever an earlier failed write left.
AppendRecord(file, rec) ==
    IF file # <<>> /\ IsFragment(file[Len(file)])
    THEN [file EXCEPT ![Len(file)] = Garbled(file[Len(file)].cut, rec)]
    ELSE Append(file, rec)

\* open("a") and a write that fails part-way: the beginning of the record goes
\* to the end of the file, with no newline.
AppendFragment(file, rec) ==
    IF file # <<>> /\ IsFragment(file[Len(file)])
    THEN [file EXCEPT ![Len(file)] = Fragment(Append(file[Len(file)].cut, rec))]
    ELSE Append(file, Fragment(<<rec>>))

\* Records already in the log file when a review starts.
OldRecord == LogRecord([cc_name |-> <<"z">>, abr_abn |-> 9, abr_name_norm |-> <<"z">>],
                       Verdict(FALSE, "low"))

\* ------------------------------------------------------------ llm_review_ambiguous
\* Variant of OracleAvailable: only the client is looked at, not the key.
OracleAvailableClientOnly == openai_client # "None"

\* The oracle is usable: a client was constructed and the key is set (line 249).
OracleAvailable == openai_client # "None" /\ api_key # "None"

ReviewInit ==
    /\ ambiguous_matches \in SeqsUpTo(ReviewCands, MaxCands)
    /\ max_to_review \in 0..MaxK
    /\ openai_client \in {"client", "None"}
    /\ api_key \in {"set", "None"}
    /\ log_file \in {<<>>, <<OldRecord>>}
    /\ log_before = log_file
    /\ to_review = <<>>
    /\ remaining = <<>>
    /\ llm_approved = <<>>
    /\ still_ambiguous = <<>>
    /\ rpc = "start"
    /\ ri = 0
    /\ calls = <<>>
    /\ outcomes = <<>>
    /\ approved_idx = <<>>

\* Lines 245-247: nothing to review.
ReviewEmpty ==
    /\ rpc = "start"
    /\ ambiguous_matches = <<>>
    /\ llm_approved' = <<>>
    /\ still_ambiguous' = <<>>
    /\ rpc' = "done"
    /\ UNCHANGED <<ambiguous_matches, max_to_review, openai_client, api_key, log_before,
                   to_review, remaining, log_file, ri, calls, outcomes, approved_idx>>
    /\ UNCHANGED <<mvars, wvars, pvars>>

\* Lines 249-251: no client or no key; the input list itself is returned.
ReviewUnavailable ==
    /\ rpc = "start"
    /\ ambiguous_matches # <<>>
    /\ ~OracleAvailable
    /\ llm_approved' = <<>>
    /\ still_ambiguous' = ambiguous_matches
    /\ rpc' = "done"
    /\ UNCHANGED <<ambiguous_matches, max_to_review, openai_client, api_key, log_before,
                   to_review, remaining, log_file, ri, calls, outcomes, approved_idx>>
    /\ UNCHANGED <<mvars, wvars, pvars>>

\* Lines 253-262: split the input, make sure the log directory exists and
\* enter the loop (ok); or the exists()/mkdir of lines 259-260, which are
\* outside the try, raise and the call ends with that exception.
ReviewBegin(ok) ==
    /\ rpc = "start"
    /\ ambiguous_matches # <<>>
    /\ OracleAvailable
    /\ to_review' = Take(ambiguous_matches, max_to_review)
    /\ remaining' = Drop(ambiguous_matches, max_to_review)
    /\ llm_approved' = <<>>
    /\ ri' = IF ok THEN 1 ELSE 0
    /\ rpc' = IF ok THEN "loop" ELSE "raised"
    /\ UNCHANGED <<ambiguous_matches, max_to_review, openai_client, api_key, log_before,
                   still_ambiguous, log_file, calls, outcomes, approved_idx>>
    /\ UNCHANGED <<mvars, wvars, pvars>>

\* Lines 268-296: the iteration appends a record.  It does when the call
\* returned, .strip() did not fail on a None content, and the append itself
\* did not raise.
Logged(o) == o.call = "ok" /\ o.content # JNone /\ o.append = "ok"

\* The iteration reaches the write and the write fails part-way.
CutOff(o) == o.call = "ok" /\ o.content # JNone /\ o.append = "partial"

\* Whether the iteration reaches line 306 under outcome o.
Approves(o) == Logged(o) /\ Decide(StripBody(o.content)) = "accept"

\* Lines 304-306: the re-tagged shallow copy.
ApprovedCopy(amb) == [amb EXCEPT !.method = "llm_disambiguation"]

\* Variant of SourceAfterApprove: the tag is written on the candidate itself.
SourceRetagged(amb) == [amb EXCEPT !.method = "llm_disambiguation"]

\* Lines 304-305: the candidate dict itself after an approval; dict(amb) made
\* a copy and the tag is assigned on the copy, so the candidate is as it was.
SourceAfterApprove(amb) == amb

\* The dicts of a list after iteration i: to_review is a slice of the input
\* (line 253), so position i of both lists is the one dict amb.
AfterItem(list, i, o) ==
    IF Approves(o) /\ i <= Len(list)
    THEN [list EXCEPT ![i] = SourceAfterApprove(list[i])]
    ELSE list

\* Variant of NextItem: a call that raised is tried again on the same item.
NextItemRetry(i, o) == IF o.call = "raise" THEN i ELSE i + 1

\* Variant of NextItem: a call that raised ends the loop.
NextItemAbort(i, o) == IF o.call = "raise" THEN Len(to_review) + 1 ELSE i + 1

\* The loop position after one iteration: the except clause of line 308 is
\* inside the loop, so the loop always moves to the next item.
NextItem(i, o) == i + 1

\* Lines 264-309: one iteration of the loop, with the environment's outcome o.
ReviewItem(o) ==
    /\ rpc = "loop"
    /\ ri <= Len(to_review)
    /\ LET amb == to_review[ri]
           prompt == build_llm_prompt(amb)
       IN /\ calls' = Append(calls, ri)
          /\ outcomes' = Append(outcomes, o)
          /\ log_file' =
                IF Logged(o)
                THEN AppendRecord(log_file, LogRecord(prompt, StripBody(o.content)))
                ELSE IF CutOff(o)
                THEN AppendFragment(log_file, LogRecord(prompt, StripBody(o.content)))
                ELSE log_file
          /\ llm_approved' = IF Approves(o)
                             THEN Append(llm_approved, ApprovedCopy(amb))
                             ELSE llm_approved
          /\ approved_idx' = IF Approves(o) THEN Append(approved_idx, ri)
                             ELSE approved_idx
    /\ to_review' = AfterItem(to_review, ri, o)
    /\ ambiguous_matches' = AfterItem(ambiguous_matches, ri, o)
    /\ ri' = NextItem(ri, o)
    /\ UNCHANGED <<max_to_review, openai_client, api_key, log_before,
                   remaining, still_ambiguous, rpc>>
    /\ UNCHANGED <<mvars, wvars, pvars>>

\* Line 317: the returned still-ambiguous list.
StillAmbiguous(reviewed, approved, deferred) == FilterNotIn(reviewed, approved) \o deferred

\* Lines 311-318: the loop is over; build the result and return.
ReviewReturn ==
    /\ rpc = "loop"
    /\ ri > Len(to_review)
    /\ still_ambiguous' = StillAmbiguous(to_review, llm_approved, remaining)
    /\ rpc' = "done"
    /\ UNCHANGED <<ambiguous_matches, max_to_review, openai_client, api_key, log_before,
                   to_review, remaining, llm_approved, log_file, ri, calls,
                   outcomes, approved_idx>>
    /\ UNCHANGED <<mvars, wvars, pvars>>

ReviewNext ==
    \/ ReviewEmpty
    \/ ReviewUnavailable
    \/ \E ok \in BOOLEAN : ReviewBegin(ok)
    \/ \E o \in OracleOutcomes : ReviewItem(o)
    \/ ReviewReturn

\* ------------------------------------------------------------ text
\* A name column cell as the data frame holds it: NULL/NaN or a text.
NullCell == [null |-> TRUE, text |-> <<>>]
Cell(text) == [null |-> FALSE, text |-> text]

\* DataFrame.fillna("") on one cell: the text, "" for a missing value.
FillNa(cell) == IF cell.null THEN <<>> ELSE cell.text

IsSpace(c) == c = " "

RECURSIVE LStrip(_)
LStrip(s) == IF s # <<>> /\ IsSpace(Head(s)) THEN LStrip(Tail(s)) ELSE s

RECURSIVE RStrip(_)
RStrip(s) ==
    IF s # <<>> /\ IsSpace(s[Len(s)]) THEN RStrip(SubSeq(s, 1, Len(s) - 1)) ELSE s

\* str.strip()
Strip(s) == RStrip(LStrip(s))

RECURSIVE SplitFrom(_, _)
\* str.split(): the maximal runs of non-space characters of s, cur being the
\* token under construction.
SplitFrom(s, cur) ==
    IF s = <<>> THEN (IF cur = <<>> THEN <<>> ELSE <<cur>>)
    ELSE IF IsSpace(Head(s))
         THEN (IF cur = <<>> THEN <<>> ELSE <<cur>>) \o SplitFrom(Tail(s), <<>>)
         ELSE SplitFrom(Tail(s), Append(cur, Head(s)))

Split(s) == SplitFrom(s, <<>>)

\* Code point order of the characters used.
CharOrd(c) == CASE c = " " -> 32 [] c = "a" -> 97 [] c = "b" -> 98 [] OTHER -> 122

RECURSIVE StrLess(_, _)
\* Python's < on str: lexicographic by code point, a proper prefix first.
StrLess(x, y) ==
    IF y = <<>> THEN FALSE
    ELSE IF x = <<>> THEN TRUE
    ELSE IF CharOrd(Head(x)) # CharOrd(Head(y)) THEN CharOrd(Head(x)) < CharOrd(Head(y))
    ELSE StrLess(Tail(x), Tail(y))

RECURSIVE InsertSorted(_, _)
InsertSorted(tok, toks) ==
    IF toks = <<>> THEN <<tok>>
    ELSE IF StrLess(Head(toks), tok) \/ Head(toks) = tok
         THEN <<Head(toks)>> \o InsertSorted(tok, Tail(toks))
         ELSE <<tok>> \o toks

RECURSIVE Sorted(_)
\* sorted(tokens)
Sorted(toks) == IF toks = <<>> THEN <<>> ELSE InsertSorted(Head(toks), Sorted(Tail(toks)))

RECURSIVE JoinSpace(_)
\* " ".join(tokens)
JoinSpace(toks) ==
    IF toks = <<>> THEN <<>>
    ELSE IF Len(toks) = 1 THEN Head(toks)
    ELSE Head(toks) \o <<" ">> \o JoinSpace(Tail(toks))

RECURSIVE LCS(_, _)
\* Length of a longest common subsequence.
LCS(x, y) ==
    IF x = <<>> \/ y = <<>> THEN 0
    ELSE IF Head(x) = Head(y) THEN 1 + LCS(Tail(x), Tail(y))
    ELSE LET p == LCS(Tail(x), y)
             q == LCS(x, Tail(y))
         IN IF p > q THEN p ELSE q

\* rapidfuzz fuzz.ratio: 100 * (1 - indel_distance / (len1 + len2)), that is
\* 100 * 2 * LCS / (len1 + len2), in hundredths; 100 for two empty texts.
Ratio(x, y) ==
    IF Len(x) + Len(y) = 0 THEN 10000
    ELSE (10000 * 2 * LCS(x, y)) \div (Len(x) + Len(y))

\* rapidfuzz fuzz.token_sort_ratio: ratio of the texts with their tokens sorted.
token_sort_ratio(x, y) == Ratio(JoinSpace(Sorted(Split(x))), JoinSpace(Sorted(Split(y))))

\* ------------------------------------------------------------ fuzzy_match_entities
\* The name cells offered to the matcher: a missing value, blanks only, a
\* padded one-token name, the same two tokens in both orders, another token.
NameCells ==
    { NullCell, Cell(<<" ">>), Cell(<<"a", " ">>), Cell(<<"a", " ", "b">>),
      Cell(<<"b", " ", "a">>), Cell(<<"b">>) }

\* The threshold arguments: the defaults (lines 116-117) and main's (line 437).
Thresholds == { <<90, 75>>, <<95, 0>> }

\* Data frames whose i-th row has key i and the i-th of the given name cells.
AbrFrame(cells) == [i \in 1..Len(cells) |-> AbrRow(i, cells[i])]
CcFrame(cells) == [i \in 1..Len(cells) |-> CcRow(i, cells[i])]

\* Lines 139-140: df.fillna("").
AbrFillNa(df) == [i \in 1..Len(df) |-> AbrRow(df[i].abn, FillNa(df[i].entity_name_norm))]
CcFillNa(df) == [i \in 1..Len(df) |-> CcRow(df[i].commoncrawl_id, FillNa(df[i].company_name_norm))]

\* Variant of CcName: the name is taken without strip().
CcNameNoStrip(cc_row) == cc_row.company_name_norm

\* Lines 145 and 154: (row.get(...) or "").strip() on a filled row.
CcName(cc_row) == Strip(cc_row.company_name_norm)
AbrName(abr_row) == Strip(abr_row.entity_name_norm)

\* Line 136: DataFrame.empty.
FrameEmpty(df) == Len(df) = 0

\* Variant of Better: an equal score replaces the best so far.
BetterOrEqual(score, best_score) == score >= best_score

\* Line 158: whether a score replaces the best so far.
Better(score, best_score) == score > best_score

RECURSIVE BestFrom(_, _, _, _)
\* Lines 150-160: the scan of the registry rows j.. for the name cc_name,
\* with best so far [score, row] (row 0: none).
BestFrom(rows, j, cc_name, best) ==
    IF j > Len(rows) THEN best
    ELSE LET abr_name == AbrName(rows[j])
         IN IF abr_name = <<>> THEN BestFrom(rows, j + 1, cc_name, best)
            ELSE LET score == token_sort_ratio(cc_name, abr_name)
                 IN IF Better(score, best.score)
                    THEN BestFrom(rows, j + 1, cc_name, [score |-> score, row |-> j])
                    ELSE BestFrom(rows, j + 1, cc_name, best)

Best(rows, cc_name) == BestFrom(rows, 1, cc_name, [score |-> -1, row |-> 0])

\* The pairs (mention i, registry row j) handed to token_sort_ratio for mention i.
ScoredFor(rows, i, cc_name) ==
    IF cc_name = <<>> THEN {}
    ELSE {<<i, j>> : j \in {k \in 1..Len(rows) : AbrName(rows[k]) # <<>>}}

\* Variant of Bucket: a score at or above the high threshold is auto-accepted.
BucketThresholded(score, high, low) ==
    IF score >= 100 * high THEN "high" ELSE "ambiguous"

\* Variant of Bucket: a score below the low threshold is discarded.
BucketDropBelowLow(score, high, low) ==
    IF score < 100 * low THEN "none" ELSE "ambiguous"

\* Lines 162-171: the bucket of a candidate.  Neither threshold is read:
\* every candidate is appended to ambiguous_matches.
Bucket(score, high, low) == "ambiguous"

\* The buckets so far with the candidate appended to the named bucket.
Place(acc, bucket, cand) ==
    CASE bucket = "high" -> [acc EXCEPT !.high = Append(@, cand)]
      [] bucket = "ambiguous" -> [acc EXCEPT !.ambiguous = Append(@, cand)]
      [] OTHER -> acc

RECURSIVE MatchLoop(_, _, _, _, _, _)
\* Lines 144-173: the loop over the mentions i.. with the three buckets so far.
MatchLoop(abr_rows, cc_rows, i, acc, high, low) ==
    IF i > Len(cc_rows) THEN acc
    ELSE LET cc_row == cc_rows[i]
             cc_name == CcName(cc_row)
             best == Best(abr_rows, cc_name)
             seen == [acc EXCEPT !.scored = @ \cup ScoredFor(abr_rows, i, cc_name)]
         IN IF cc_name = <<>>
            THEN MatchLoop(abr_rows, cc_rows, i + 1,
                           [acc EXCEPT !.unmatched = Append(@, cc_row)], high, low)
            ELSE IF best.row # 0
            THEN MatchLoop(abr_rows, cc_rows, i + 1,
                           Place(seen, Bucket(best.score, high, low),
                                 Candidate(cc_row, abr_rows[best.row], best.score,
                                           "fuzzy_name_ambiguous")),
                           high, low)
            ELSE MatchLoop(abr_rows, cc_rows, i + 1,
                           [seen EXCEPT !.unmatched = Append(@, cc_row)], high, low)

\* Lines 139-181 on non-empty frames: the three buckets (and the pairs scored).
MatchOutputs(abr, cc, high, low) ==
    MatchLoop(AbrFillNa(abr), CcFillNa(cc), 1,
              [high |-> <<>>, ambiguous |-> <<>>, unmatched |-> <<>>, scored |-> {}],
              high, low)

MatchInit ==
    /\ abr_df \in {AbrFrame(c) : c \in SeqsUpTo(NameCells, MaxRegistry)}
    /\ cc_df \in {CcFrame(c) : c \in SeqsUpTo(NameCells, MaxMentions)}
    /\ \E t \in Thresholds : high_threshold = t[1] /\ low_threshold = t[2]
    /\ high_conf_matches = <<>>
    /\ fuzzy_ambiguous = <<>>
    /\ unmatched_cc = <<>>
    /\ scored = {}
    /\ mpc = "start"

\* Lines 132-137: an empty frame on either side returns the three empty lists.
MatchEmpty ==
    /\ mpc = "start"
    /\ FrameEmpty(abr_df) \/ FrameEmpty(cc_df)
    /\ high_conf_matches' = <<>>
    /\ fuzzy_ambiguous' = <<>>
    /\ unmatched_cc' = <<>>
    /\ mpc' = "done"
    /\ UNCHANGED <<abr_df, cc_df, high_threshold, low_threshold, scored>>
    /\ UNCHANGED <<rvars, wvars, pvars>>

\* Lines 139-181: fill the missing values, run the loop, return the buckets.
MatchRun ==
    /\ mpc = "start"
    /\ ~(FrameEmpty(abr_df) \/ FrameEmpty(cc_df))
    /\ LET out == MatchOutputs(abr_df, cc_df, high_threshold, low_threshold)
       IN /\ high_conf_matches' = out.high
          /\ fuzzy_ambiguous' = out.ambiguous
          /\ unmatched_cc' = out.unmatched
          /\ scored' = out.scored
    /\ mpc' = "done"
    /\ UNCHANGED <<abr_df, cc_df, high_threshold, low_threshold>>
    /\ UNCHANGED <<rvars, wvars, pvars>>

MatchNext == MatchEmpty \/ MatchRun

\* ------------------------------------------------------------ write_matches_to_db
\* The store: the rows of company_unified and of company_source_link, and the
\* next value of the company_id sequence (RETURNING company_id, line 372;
\* restarted by TRUNCATE ... RESTART IDENTITY, line 335).
Store(unified, links, next_id) == [unified |-> unified, links |-> links, next_id |-> next_id]

EmptyStore == Store(<<>>, <<>>, 1)

\* A transaction: open or not, and its view of the store.
Txn(open, store) == [open |-> open, store |-> store]
NoTxn == Txn(FALSE, EmptyStore)

\* str() of a commoncrawl_id (line 417).
DigitStr(n) ==
    CASE n = 0 -> "0" [] n = 1 -> "1" [] n = 2 -> "2" [] n = 3 -> "3" [] n = 4 -> "4"
      [] n = 5 -> "5" [] n = 6 -> "6" [] n = 7 -> "7" [] n = 8 -> "8" [] OTHER -> "9"

RECURSIVE IntStr(_)
IntStr(n) == IF n < 10 THEN <<DigitStr(n)>> ELSE IntStr(n \div 10) \o <<DigitStr(n % 10)>>

\* Lines 394-410 with the id the insert returns: the company_unified row.
UnifiedRow(company_id, m) ==
    [company_id |-> company_id,
     abn |-> m.abr.abn,
     unified_name_norm |-> m.abr.entity_name_norm,
     match_confidence |-> m.score,
     match_method |-> m.method]

LinkRow(company_id, source_system, source_key) ==
    [company_id |-> company_id, source_system |-> source_system, source_key |-> source_key]

\* Variant of LinkRows: only the registry link is written.
LinkRowsAbrOnly(company_id, m) == <<LinkRow(company_id, "ABR", m.abr.abn)>>

\* Lines 415-418: the two company_source_link rows of one match.
LinkRows(company_id, m) ==
    <<LinkRow(company_id, "ABR", m.abr.abn),
      LinkRow(company_id, "COMMONCRAWL", IntStr(m.cc.commoncrawl_id))>>

\* A store written by an earlier run: one company and its two links.
OldStore ==
    Store(<<[company_id |-> 1, abn |-> 9, unified_name_norm |-> <<"z">>,
             match_confidence |-> 10000, match_method |-> "llm_disambiguation"]>>,
          <<LinkRow(1, "ABR", 9), LinkRow(1, "COMMONCRAWL", <<"9">>)>>,
          2)

\* Line 335 inside the transaction: both tables emptied, the sequence restarted.
Truncated(store) == EmptyStore

\* Variant of TruncateCommitted: the TRUNCATE takes effect outside the transaction.
TruncateCommittedAtOnce(store) == EmptyStore

\* Lines 330-335 on the committed contents: with autocommit off, PostgreSQL's
\* TRUNCATE is part of the transaction and leaves the committed contents alone.
TruncateCommitted(store) == store

\* Variant of RolledBack: what the transaction had written stays.
RolledBackKeepsWrites(committed, working) == working

\* Line 426: conn.rollback() discards the transaction's view.
RolledBack(committed, working) == committed

\* The statements of one loop iteration (lines 412-418) up to the one that
\* raises: "none" means all three ran.
StatementOutcomes == {"none", "unified", "link_abr", "link_cc"}

InsertOne(store, m, fail) ==
    IF fail = "unified" THEN store
    ELSE LET company_id == store.next_id
             links == LinkRows(company_id, m)
             withRow == Store(Append(store.unified, UnifiedRow(company_id, m)),
                              store.links, store.next_id + 1)
         IN IF fail = "link_abr" THEN withRow
            ELSE IF fail = "link_cc"
                 THEN Store(withRow.unified, Append(withRow.links, Head(links)),
                            withRow.next_id)
                 ELSE Store(withRow.unified, withRow.links \o links, withRow.next_id)

\* Lines 325-327: nothing to write; the store is not touched.
WriteEmpty ==
    /\ wpc = "start"
    /\ matches = <<>>
    /\ wpc' = "returned"
    /\ UNCHANGED <<matches, db, txn, db_before, wi, inserted_count, wfail, runs>>
    /\ UNCHANGED <<rvars, mvars, pvars>>

\* Line 329: get_connection() raises, outside the try block.
WriteConnectFail ==
    /\ wpc = "start"
    /\ matches # <<>>
    /\ wfail' = "connect"
    /\ wpc' = "raised"
    /\ UNCHANGED <<matches, db, txn, db_before, wi, inserted_count, runs>>
    /\ UNCHANGED <<rvars, mvars, pvars>>

\* Lines 329-384: connect, open the transaction, truncate (ok), or the
\* TRUNCATE raises.
WriteBegin(ok) ==
    /\ wpc = "start"
    /\ matches # <<>>
    /\ IF ok
       THEN /\ txn' = Txn(TRUE, Truncated(db))
            /\ db' = TruncateCommitted(db)
            /\ wpc' = "loop"
            /\ wfail' = wfail
       ELSE /\ txn' = Txn(TRUE, db)
            /\ db' = db
            /\ wpc' = "except"
            /\ wfail' = "truncate"
    /\ wi' = 1
    /\ inserted_count' = 0
    /\ UNCHANGED <<matches, db_before, runs>>
    /\ UNCHANGED <<rvars, mvars, pvars>>

\* Lines 386-420: one iteration of the loop; statement fail raises, if any.
WriteInsert(fail) ==
    /\ wpc = "loop"
    /\ wi <= Len(matches)
    /\ txn' = Txn(TRUE, InsertOne(txn.store, matches[wi], fail))
    /\ IF fail = "none"
       THEN /\ wi' = wi + 1
            /\ inserted_count' = inserted_count + 1
            /\ UNCHANGED <<wpc, wfail>>
       ELSE /\ wpc' = "except"
            /\ wfail' = fail
            /\ UNCHANGED <<wi, inserted_count>>
    /\ UNCHANGED <<matches, db, db_before, runs>>
    /\ UNCHANGED <<rvars, mvars, pvars>>

\* Lines 422-423 and 429-431: commit (ok) and return, or the commit raises.
WriteCommit(ok) ==
    /\ wpc = "loop"
    /\ wi > Len(matches)
    /\ IF ok
       THEN /\ db' = txn.store
            /\ txn' = NoTxn
            /\ wpc' = "returned"
            /\ wfail' = wfail
       ELSE /\ wpc' = "except"
            /\ wfail' = "commit"
            /\ UNCHANGED <<db, txn>>
    /\ UNCHANGED <<matches, db_before, wi, inserted_count, runs>>
    /\ UNCHANGED <<rvars, mvars, pvars>>

\* Lines 425-431: roll back, re-raise, close.
WriteRollback ==
    /\ wpc = "except"
    /\ db' = RolledBack(db, txn.store)
    /\ txn' = NoTxn
    /\ wpc' = "raised"
    /\ UNCHANGED <<matches, db_before, wi, inserted_count, wfail, runs>>
    /\ UNCHANGED <<rvars, mvars, pvars>>

\* The caller writes the same list again after a call that returned.
WriteAgain ==
    /\ wpc = "returned"
    /\ runs < MaxRuns
    /\ runs' = runs + 1
    /\ db_before' = db
    /\ wpc' = "start"
    /\ wi' = 0
    /\ inserted_count' = 0
    /\ UNCHANGED <<matches, db, txn, wfail>>
    /\ UNCHANGED <<rvars, mvars, pvars>>

WriteInit ==
    /\ matches \in SeqsUpTo(ReviewCands, MaxCands)
    /\ db \in {EmptyStore, OldStore}
    /\ db_before = db
    /\ txn = NoTxn
    /\ wpc = "start"
    /\ wi = 0
    /\ inserted_count = 0
    /\ wfail = "none"
    /\ runs = 1

WriteNext ==
    \/ WriteEmpty
    \/ WriteConnectFail
    \/ \E ok \in BOOLEAN : WriteBegin(ok)
    \/ \E fail \in StatementOutcomes : WriteInsert(fail)
    \/ \E ok \in BOOLEAN : WriteCommit(ok)
    \/ WriteRollback
    \/ WriteAgain

\* ------------------------------------------------------------ main
\* Line 29.
LLM_MAX_REVIEWS == 10

\* Lines 447-454: the printed summary.
Summary(emitted, abr, cc, high_conf, approved, written, ambiguous, unmatched) ==
    [emitted |-> emitted, abr |-> abr, cc |-> cc, high_conf |-> high_conf,
     llm_approved |-> approved, written |-> written, ambiguous |-> ambiguous,
     unmatched |-> unmatched]

NoSummary == Summary(FALSE, 0, 0, 0, 0, 0, 0, 0)

\* Name cells of the staging rows main reads: registry rows, web mentions.
StagingAbrCells == { Cell(<<"a", " ", "b">>), Cell(<<"b">>) }
StagingCcCells == { NullCell, Cell(<<"a", " ", "b">>) }

\* Oracle outcomes during a run of main: the call raises, an accepting
\* verdict, a rejecting verdict, a verdict whose log append fails.
MainOutcomes ==
    { Outcome("raise", JNone, "none"),
      Outcome("ok", Verdict(TRUE, "medium"), "ok"),
      Outcome("ok", Verdict(FALSE, "high"), "ok"),
      Outcome("ok", Verdict(TRUE, "high"), "fail") }

\* Variant of SummaryReached: the summary is printed after a failed write too.
SummaryReachedAfterRaise(w) == w \in {"returned", "raised"}

\* Lines 445-447: the prints follow the call of the writer, with no handler
\* in main; they run when the call returned.
SummaryReached(w) == w = "returned"

MainInit ==
    /\ main_pc = "fetch"
    /\ summary = NoSummary
    /\ db \in {EmptyStore, OldStore}
    /\ db_before = db
    /\ openai_client \in {"client", "None"}
    /\ api_key \in {"set", "None"}

\* Lines 435-438: read the two staging samples (ok) and call the matcher with
\* thresholds 95 and 0, or the read raises.
MainFetch(ok, abr, cc) ==
    /\ main_pc = "fetch"
    /\ IF ok
       THEN /\ abr_df' = abr
            /\ cc_df' = cc
            /\ high_threshold' = 95
            /\ low_threshold' = 0
            /\ mpc' = "start"
            /\ main_pc' = "match"
       ELSE /\ main_pc' = "raised"
            /\ UNCHANGED <<abr_df, cc_df, high_threshold, low_threshold, mpc>>
    /\ UNCHANGED <<high_conf_matches, fuzzy_ambiguous, unmatched_cc, scored, summary>>
    /\ UNCHANGED <<rvars, wvars>>

\* Lines 440-442: the matcher returned; call the review with LLM_MAX_REVIEWS.
MainReview ==
    /\ main_pc = "match"
    /\ mpc = "done"
    /\ ambiguous_matches' = fuzzy_ambiguous
    /\ max_to_review' = LLM_MAX_REVIEWS
    /\ log_before' = log_file
    /\ rpc' = "start"
    /\ main_pc' = "review"
    /\ UNCHANGED <<openai_client, api_key, to_review, remaining, llm_approved,
                   still_ambiguous, log_file, ri, calls, outcomes, approved_idx>>
    /\ UNCHANGED <<mvars, wvars, summary>>

\* Lines 444-445: the review returned; call the writer.
MainWrite ==
    /\ main_pc = "review"
    /\ rpc = "done"
    /\ matches' = high_conf_matches \o llm_approved
    /\ db_before' = db
    /\ runs' = 1
    /\ wpc' = "start"
    /\ main_pc' = "write"
    /\ UNCHANGED <<db, txn, wi, inserted_count, wfail>>
    /\ UNCHANGED <<rvars, mvars, summary>>

\* Lines 447-454: print the summary and end.
MainSummary ==
    /\ main_pc = "write"
    /\ SummaryReached(wpc)
    /\ summary' = Summary(TRUE, Len(abr_df), Len(cc_df), Len(high_conf_matches),
                          Len(llm_approved), Len(matches), Len(still_ambiguous),
                          Len(unmatched_cc))
    /\ main_pc' = "done"
    /\ UNCHANGED <<rvars, mvars, wvars>>

\* Lines 440 and 445: the review or the writer raised; main has no handler
\* and the run ends there.
MainRaise ==
    /\ \/ main_pc = "review" /\ rpc = "raised"
       \/ main_pc = "write" /\ wpc = "raised"
    /\ main_pc' = "raised"
    /\ UNCHANGED <<rvars, mvars, wvars, summary>>

\* The steps of main that wait for the store, the oracle or the file system:
\* the staging read (line 48), the log directory (259-260), the oracle call
\* and the log append (268-296), connect and every statement of the writer.
MainExternalCalls ==
    \/ \E ok \in BOOLEAN,
          abr \in {AbrFrame(c) : c \in SeqsUpTo(StagingAbrCells, MaxRegistry)},
          cc \in {CcFrame(c) : c \in SeqsUpTo(StagingCcCells, MaxMentions)} :
          MainFetch(ok, abr, cc)
    \/ \E ok \in BOOLEAN : ReviewBegin(ok)
    \/ \E o \in MainOutcomes : ReviewItem(o)
    \/ WriteConnectFail
    \/ \E ok \in BOOLEAN : WriteBegin(ok)
    \/ \E fail \in StatementOutcomes : WriteInsert(fail)
    \/ \E ok \in BOOLEAN : WriteCommit(ok)
    \/ WriteRollback

\* The steps of main that compute in the process itself, the matcher aside.
MainInternalSteps ==
    \/ MainReview
    \/ ReviewEmpty
    \/ ReviewUnavailable
    \/ ReviewReturn
    \/ MainWrite
    \/ WriteEmpty
    \/ MainSummary
    \/ MainRaise

MainNext == MainExternalCalls \/ MainInternalSteps \/ MatchEmpty \/ MatchRun

\* A step of the matcher seen by its effect on mpc: MatchEmpty or MatchRun,
\* one of which can be taken whenever mpc = "start".
MatchReturns == mpc = "start" /\ mpc' = "done"

\* ------------------------------------------------------------ specifications
\* The matcher's variables while it does not run.
MatchIdle ==
    /\ abr_df = <<>>
    /\ cc_df = <<>>
    /\ high_threshold = 90
    /\ low_threshold = 75
    /\ high_conf_matches = <<>>
    /\ fuzzy_ambiguous = <<>>
    /\ unmatched_cc = <<>>
    /\ scored = {}
    /\ mpc = "idle"

\* The review's variables while it does not run.
ReviewIdle ==
    /\ ambiguous_matches = <<>>
    /\ max_to_review = 0
    /\ openai_client = "None"
    /\ api_key = "None"
    /\ to_review = <<>>
    /\ remaining = <<>>
    /\ llm_approved = <<>>
    /\ still_ambiguous = <<>>
    /\ log_file = <<>>
    /\ log_before = <<>>
    /\ rpc = "idle"
    /\ ri = 0
    /\ calls = <<>>
    /\ outcomes = <<>>
    /\ approved_idx = <<>>

\* The writer's variables while it does not run.
WriteIdle ==
    /\ matches = <<>>
    /\ db = EmptyStore
    /\ db_before = EmptyStore
    /\ txn = NoTxn
    /\ wpc = "idle"
    /\ wi = 0
    /\ inserted_count = 0
    /\ wfail = "none"
    /\ runs = 0

\* main's variables while it does not run.
MainIdle == main_pc = "idle" /\ summary = NoSummary

InitReview == ReviewInit /\ MatchIdle /\ WriteIdle /\ MainIdle

SpecReview == InitReview /\ [][ReviewNext]_vars

InitMatch == MatchInit /\ ReviewIdle /\ WriteIdle /\ MainIdle

SpecMatch == InitMatch /\ [][MatchNext]_vars

InitWrite == WriteInit /\ ReviewIdle /\ MatchIdle /\ MainIdle

SpecWrite == InitWrite /\ [][WriteNext]_vars

\* The parts of the state main's callees own, before main calls them.
CalleesIdle ==
    /\ MatchIdle
    /\ ambiguous_matches = <<>> /\ max_to_review = 0
    /\ to_review = <<>> /\ remaining = <<>> /\ llm_approved = <<>>
    /\ still_ambiguous = <<>> /\ log_file = <<>> /\ log_before = <<>>
    /\ rpc = "idle" /\ ri = 0 /\ calls = <<>> /\ outcomes = <<>> /\ approved_idx = <<>>
    /\ matches = <<>> /\ txn = NoTxn /\ wpc = "idle" /\ wi = 0
    /\ inserted_count = 0 /\ wfail = "none" /\ runs = 0

InitMain == MainInit /\ CalleesIdle

\* main is one sequential thread: a step the process computes by itself is
\* taken.  Nothing is assumed of the external calls: the code gives none of
\* them a timeout, so a behaviour may wait at one of them for ever.
SpecMain ==
    InitMain /\ [][MainNext]_vars /\ WF_vars(MainInternalSteps) /\ WF_mpc(MatchReturns)

\* ==================================================================== claims
\* Shorthands over the review's state.
Reviewed == 1..Len(outcomes)
IsApproved(i) == InList(i, approved_idx)
ReviewRan == rpc = "done" /\ ambiguous_matches # <<>> /\ openai_client # "None" /\ api_key # "None"
AllFromMatcher == \A j \in 1..Len(ambiguous_matches) :
                      ambiguous_matches[j].method = "fuzzy_name_ambiguous"
\* Every response of the run that has a text is a verdict of the documented shape.
AllVerdictsWellFormed ==
    \A i \in 1..Len(outcomes) :
        (outcomes[i].call = "ok" /\ outcomes[i].content # JNone) =>
            /\ outcomes[i].content.kind = "object"
            /\ outcomes[i].content.is_match.t = "bool"
            /\ outcomes[i].content.confidence.s \in {"low", "medium", "high"}
            /\ outcomes[i].content.reason.t = "str"

RECURSIVE NotApprovedFrom(_)
\* The items of to_review from position i on that were not accepted, in input order.
NotApprovedFrom(i) ==
    IF i > Len(to_review) THEN <<>>
    ELSE (IF IsApproved(i) THEN <<>> ELSE <<to_review[i]>>) \o NotApprovedFrom(i + 1)

\* C1: after a review with the oracle available, still-ambiguous is exactly
\* the to_review items that were not accepted, in input order, followed by the
\* deferred items, and len(accepted) + len(still_ambiguous) is the number of
\* input candidates.  Stated here for the lists the matcher emits (every
\* method tag is fuzzy_name_ambiguous) and for runs in which every response
\* is a verdict of the documented shape.
C1_StillAmbiguousIsRejectedPlusDeferred ==
    (ReviewRan /\ AllFromMatcher /\ AllVerdictsWellFormed) =>
        /\ still_ambiguous = NotApprovedFrom(1) \o remaining
        /\ Len(llm_approved) + Len(still_ambiguous) = Len(ambiguous_matches)

\* A response that is a verdict of the documented shape.
WellFormed(b) ==
    /\ b.kind = "object"
    /\ b.is_match.t = "bool"
    /\ b.confidence.t = "str" /\ b.confidence.s \in {"low", "medium", "high"}
    /\ b.reason.t = "str"

\* The oracle's verdict for outcome o has is_match equal to true and
\* confidence equal to medium or high.
VerdictTrueMediumOrHigh(o) ==
    /\ o.call = "ok"
    /\ o.content # JNone
    /\ o.content.kind = "object"
    /\ o.content.is_match = JBool(TRUE)
    /\ o.content.confidence \in {JStr("medium"), JStr("high")}

\* C2: a reviewed candidate is accepted if and only if the oracle's verdict
\* has is_match equal to true and confidence equal to medium or high.
C2_AcceptedIffTrueMediumOrHigh ==
    \A i \in Reviewed : IsApproved(i) <=> VerdictTrueMediumOrHigh(outcomes[i])

\* C3: with the oracle available the oracle is asked about items
\* 1..min(n, K) of the input, each once and in that order, and the other
\* n - min(n, K) items are the unchanged tail of still-ambiguous.
C3_CapRespected ==
    /\ \A k \in 1..Len(calls) : calls[k] = k
    /\ Len(calls) <= Min(Len(ambiguous_matches), max_to_review)
    /\ (rpc = "done" /\ openai_client # "None" /\ api_key # "None") =>
          LET n == Len(ambiguous_matches)
              m == Min(n, max_to_review)
          IN /\ Len(calls) = m
             /\ Len(still_ambiguous) >= n - m
             /\ SubSeq(still_ambiguous, Len(still_ambiguous) - (n - m) + 1,
                       Len(still_ambiguous))
                  = SubSeq(ambiguous_matches, m + 1, n)

\* C3 witness: two candidates, K = 1: one call (which raised), one deferred.
C3_Witness ==
    /\ ReviewRan
    /\ Len(ambiguous_matches) = 2 /\ max_to_review = 1
    /\ calls = <<1>> /\ outcomes[1].call = "raise"
    /\ remaining = <<ambiguous_matches[2]>>

\* C4: with the oracle unavailable and a non-empty input, the review returns
\* no accepted item and the input list itself, calls the oracle for nothing
\* and leaves the log file as it was.
C4_UnavailableShortCircuit ==
    (ambiguous_matches # <<>> /\ (openai_client = "None" \/ api_key = "None")) =>
        /\ calls = <<>>
        /\ log_file = log_before
        /\ rpc = "done" => (llm_approved = <<>> /\ still_ambiguous = ambiguous_matches)

\* C4 witness: a client exists but the key is not set, two candidates returned.
C4_Witness ==
    /\ rpc = "done"
    /\ openai_client = "client" /\ api_key = "None"
    /\ Len(ambiguous_matches) = 2 /\ still_ambiguous = ambiguous_matches
    /\ log_file = <<OldRecord>>

\* A per-item failure in the sense of C5: the call raised, or the body is not JSON.
ItemFailed(o) == o.call = "raise" \/ (o.call = "ok" /\ o.content # JNone /\ o.content.kind = "prose")

\* C5: a failed item is not accepted, every later to_review item is still
\* sent to the oracle, and every other item is accepted exactly when its own
\* outcome accepts it.
C5_FailureIsPerItem ==
    (rpc = "done" /\ ambiguous_matches # <<>> /\ openai_client # "None" /\ api_key # "None") =>
        \A i \in 1..Len(to_review) :
            (i \in Reviewed /\ ItemFailed(outcomes[i])) =>
                /\ ~IsApproved(i)
                /\ \A j \in (i + 1)..Len(to_review) : InList(j, calls)
                /\ \A j \in 1..Len(to_review) :
                      j # i => (j \in Reviewed /\ (IsApproved(j) <=> Approves(outcomes[j])))

\* C5 witness: the first item's call raised and the second item was accepted.
C5_Witness ==
    /\ rpc = "done"
    /\ Len(to_review) = 2
    /\ outcomes[1].call = "raise"
    /\ approved_idx = <<2>>

\* C6: a response that is valid JSON but not of the documented shape never
\* gets its candidate accepted.
C6_MalformedNeverAccepted ==
    \A i \in Reviewed :
        (/\ outcomes[i].call = "ok" /\ outcomes[i].content # JNone
         /\ outcomes[i].content.kind # "prose"
         /\ ~WellFormed(outcomes[i].content)) => ~IsApproved(i)

RECURSIVE RecordsOf(_, _)
\* The records of items i.. of the review, in order, one for every item
\* whose position is in the set keep.
RecordsOf(i, keep) ==
    IF i > Len(outcomes) THEN <<>>
    ELSE (IF i \in keep
          THEN <<LogRecord(build_llm_prompt(to_review[i]), StripBody(outcomes[i].content))>>
          ELSE <<>>) \o RecordsOf(i + 1, keep)

Returned == {i \in Reviewed : outcomes[i].call = "ok"}
\* C7 as stated: the oracle is asked in input order, and the log is what it
\* was before followed by one record, in that order, for every reviewed item
\* whose call returned a response.
C7_RecordForEveryResponse ==
    /\ \A k \in 1..Len(calls) : calls[k] = k
    /\ log_file = log_before \o RecordsOf(1, Returned)

\* The candidate of the input that the k-th accepted item was copied from.
SourceOf(k) == ambiguous_matches[approved_idx[k]]

PayloadKept ==
    /\ Len(llm_approved) = Len(approved_idx)
    /\ \A k \in 1..Len(llm_approved) :
          /\ llm_approved[k].cc = SourceOf(k).cc
          /\ llm_approved[k].abr = SourceOf(k).abr
          /\ llm_approved[k].score = SourceOf(k).score
          /\ llm_approved[k].method = "llm_disambiguation"
    /\ rpc = "done" =>
          \A k \in 1..Len(still_ambiguous) :
              \E j \in 1..Len(ambiguous_matches) : still_ambiguous[k] = ambiguous_matches[j]

\* C18: no step of a review changes the input list or a candidate in it; every
\* accepted item equals its source candidate in web record, registry record
\* and score and carries the oracle tag; every still-ambiguous item is a
\* candidate of the input with its payload and tag as given.
C18_InputNeverMutated ==
    /\ []PayloadKept
    /\ [][ambiguous_matches' = ambiguous_matches]_vars

\* C18 witness: a matcher-tagged candidate was accepted and is, in the input,
\* still matcher-tagged; a second candidate was rejected and returned as given.
C18_Witness ==
    /\ rpc = "done"
    /\ Len(ambiguous_matches) = 2
    /\ approved_idx = <<1>>
    /\ ambiguous_matches[1].method = "fuzzy_name_ambiguous"
    /\ llm_approved[1].method = "llm_disambiguation"
    /\ Len(outcomes) = 2
    /\ InList(ambiguous_matches[2], still_ambiguous)

\* The lines this review added to the log.
NewRecords == Drop(log_file, Len(log_before))

\* C19: at every point of a review (here: of one whose responses are all
\* verdicts of the documented shape), each accepted item has its {prompt,
\* response} record among the lines this review added to the log, and an item
\* whose record could not be appended is not accepted, whatever its verdict.
C19_NoAcceptWithoutRecord ==
    AllVerdictsWellFormed =>
        /\ \A k \in 1..Len(approved_idx) :
              LET i == approved_idx[k]
              IN /\ i \in Reviewed
                 /\ outcomes[i].append = "ok"
                 /\ InList(LogRecord(build_llm_prompt(to_review[i]),
                                     StripBody(outcomes[i].content)),
                           NewRecords)
        /\ Len(NewRecords) >= Len(llm_approved)
        /\ \A i \in Reviewed : outcomes[i].append \in {"fail", "partial"} => ~IsApproved(i)

\* -------------------------------------------------------------- matcher claims
\* A normalised name is empty: the cell is missing or holds blanks only.
EmptyNameCell(cell) == cell.null \/ \A k \in 1..Len(cell.text) : cell.text[k] = " "

\* The call ran on a non-empty registry and a non-empty mention collection.
MatchRan == mpc = "done" /\ abr_df # <<>> /\ cc_df # <<>>

\* The registry rows with a non-empty normalised name.
Eligible == {j \in 1..Len(abr_df) : ~EmptyNameCell(abr_df[j].entity_name_norm)}

\* The similarity of mention i and registry row j.
ScoreOf(i, j) ==
    token_sort_ratio(abr_df[j].entity_name_norm.text, cc_df[i].company_name_norm.text)

AllCandidates == high_conf_matches \o fuzzy_ambiguous

\* The positions at which mention i occurs in a list of candidates / of rows.
CandidatesOf(i) == {k \in 1..Len(AllCandidates) : AllCandidates[k].cc.commoncrawl_id = i}
UnmatchedOf(i) == {k \in 1..Len(unmatched_cc) : unmatched_cc[k].commoncrawl_id = i}

\* C8: every mention with a non-empty name (and some registry row with a
\* non-empty name) gets one candidate, whose registry row is the first, in
\* registry order, of the non-empty-name rows with the maximum score, and
\* whose score is that maximum.
C8_FirstBestWins ==
    MatchRan =>
        \A i \in 1..Len(cc_df) :
            (~EmptyNameCell(cc_df[i].company_name_norm) /\ Eligible # {}) =>
                /\ Cardinality(CandidatesOf(i)) = 1
                /\ \A k \in CandidatesOf(i) :
                      LET j == AllCandidates[k].abr.abn
                      IN /\ j \in Eligible
                         /\ AllCandidates[k].score = ScoreOf(i, j)
                         /\ \A j2 \in Eligible :
                               /\ ScoreOf(i, j2) <= ScoreOf(i, j)
                               /\ j2 < j => ScoreOf(i, j2) < ScoreOf(i, j)

\* C8 witness: a candidate whose registry row is the earlier of two rows of
\* different names with the same best score, strictly between 0 and 100.
C8_Witness ==
    /\ MatchRan
    /\ \E k \in 1..Len(AllCandidates) :
          LET i == AllCandidates[k].cc.commoncrawl_id
              j == AllCandidates[k].abr.abn
          IN /\ AllCandidates[k].score > 0 /\ AllCandidates[k].score < 10000
             /\ \E j2 \in Eligible :
                   /\ j2 > j
                   /\ abr_df[j2].entity_name_norm # abr_df[j].entity_name_norm
                   /\ ScoreOf(i, j2) = AllCandidates[k].score

\* C9: on non-empty inputs every mention is in exactly one output bucket, it
\* is in unmatched exactly when its name is empty or no registry row has a
\* non-empty name, and a mention with an empty name is never scored.
C9_NoMentionDropped ==
    MatchRan =>
        \A i \in 1..Len(cc_df) :
            /\ Cardinality(CandidatesOf(i)) + Cardinality(UnmatchedOf(i)) = 1
            /\ UnmatchedOf(i) # {} <=>
                  (EmptyNameCell(cc_df[i].company_name_norm) \/ Eligible = {})
            /\ EmptyNameCell(cc_df[i].company_name_norm) =>
                  \A j \in 1..Len(abr_df) : <<i, j>> \notin scored

\* C9 witness: a blank-only mention went to unmatched unscored, next to a
\* mention that was scored and got a candidate.
C9_Witness ==
    /\ MatchRan
    /\ Len(cc_df) = 2
    /\ cc_df[1].company_name_norm = Cell(<<" ">>)
    /\ UnmatchedOf(1) # {} /\ CandidatesOf(2) # {}
    /\ <<2, 1>> \in scored

\* C10: for a non-empty mention collection, a registry that is empty or
\* holds only empty-name rows yields no candidate and every mention, in
\* order, in unmatched.
C10_AbsentPoolRoutesToUnmatched ==
    (mpc = "done" /\ cc_df # <<>> /\ Eligible = {}) =>
        /\ AllCandidates = <<>>
        /\ Len(unmatched_cc) = Len(cc_df)
        /\ \A k \in 1..Len(unmatched_cc) : unmatched_cc[k].commoncrawl_id = k

\* The part of C10 the code does satisfy: a non-empty registry of
\* empty-name rows only.
C10_EmptyNamesOnly ==
    (mpc = "done" /\ cc_df # <<>> /\ abr_df # <<>> /\ Eligible = {}) =>
        /\ AllCandidates = <<>>
        /\ Len(unmatched_cc) = Len(cc_df)
        /\ \A k \in 1..Len(unmatched_cc) : unmatched_cc[k].commoncrawl_id = k

\* ------------------------------------------------------------ classifier claims
\* Mention i has a candidate: its name is not empty and some registry row's is not.
HasCandidate(i) == ~EmptyNameCell(cc_df[i].company_name_norm) /\ Eligible # {}

\* The best score of mention i over the registry rows with a non-empty name.
BestScore(i) ==
    CHOOSE sc \in {ScoreOf(i, j) : j \in Eligible} : \A j \in Eligible : ScoreOf(i, j) <= sc

\* Mention i's candidate is in the auto-accept / the needs-adjudication bucket.
InHigh(i) == \E k \in 1..Len(high_conf_matches) : high_conf_matches[k].cc.commoncrawl_id = i
InAmbiguous(i) == \E k \in 1..Len(fuzzy_ambiguous) : fuzzy_ambiguous[k].cc.commoncrawl_id = i

\* C11 as stated: with high >= low, a candidate whose score is >= the high
\* threshold is in the auto-accept bucket, and one whose score is >= the low
\* and < the high threshold is in the needs-adjudication bucket.
C11_ThresholdedBuckets ==
    (MatchRan /\ high_threshold >= low_threshold) =>
        \A i \in 1..Len(cc_df) :
            HasCandidate(i) =>
                /\ BestScore(i) >= 100 * high_threshold => InHigh(i)
                /\ (BestScore(i) >= 100 * low_threshold /\ BestScore(i) < 100 * high_threshold)
                      => InAmbiguous(i)

\* C11 amended: with high >= low, a candidate whose score is >= the low and
\* < the high threshold is in the needs-adjudication bucket, and so is a
\* candidate whose score is >= the high threshold: it is not auto-accepted.
C11_AtOrAboveLowIsAdjudicated ==
    (MatchRan /\ high_threshold >= low_threshold) =>
        \A i \in 1..Len(cc_df) :
            (HasCandidate(i) /\ BestScore(i) >= 100 * low_threshold) =>
                InAmbiguous(i) /\ ~InHigh(i)

\* C11 witness: under thresholds 95/0, a candidate of score 100 and one of
\* score 50 are both in the needs-adjudication bucket.
C11_Witness ==
    /\ MatchRan
    /\ high_threshold = 95 /\ low_threshold = 0
    /\ \E i, i2 \in 1..Len(cc_df) :
          /\ HasCandidate(i) /\ BestScore(i) = 10000 /\ InAmbiguous(i)
          /\ HasCandidate(i2) /\ BestScore(i2) = 5000 /\ InAmbiguous(i2)

\* C12: every candidate, whatever its score, is in the needs-adjudication
\* bucket, the auto-accept bucket is empty, and the three buckets are what
\* the same inputs give under every other choice of the thresholds.
C12_BlanketAdjudication ==
    MatchRan =>
        /\ high_conf_matches = <<>>
        /\ \A i \in 1..Len(cc_df) : HasCandidate(i) => InAmbiguous(i)
        /\ \A t \in Thresholds :
              LET other == MatchOutputs(abr_df, cc_df, t[1], t[2])
              IN /\ high_conf_matches = other.high
                 /\ fuzzy_ambiguous = other.ambiguous
                 /\ unmatched_cc = other.unmatched

\* C12 witness: under thresholds 90/75 a candidate of score 50, below the low
\* threshold, is in the needs-adjudication bucket next to one of score 100.
C12_Witness ==
    /\ MatchRan
    /\ high_threshold = 90 /\ low_threshold = 75
    /\ Len(fuzzy_ambiguous) = 2
    /\ fuzzy_ambiguous[1].score = 5000
    /\ fuzzy_ambiguous[2].score = 10000

\* ------------------------------------------------------------ writer claims
WriterReturned == wpc = "returned"
WriterRaised == wpc = "raised"

\* The statement failures that reach the except block (lines 425-428).
RolledBackFailures == {"truncate", "unified", "link_abr", "link_cc", "commit"}

\* Reading a decimal key back.
DigitVal(c) ==
    CASE c = "0" -> 0 [] c = "1" -> 1 [] c = "2" -> 2 [] c = "3" -> 3 [] c = "4" -> 4
      [] c = "5" -> 5 [] c = "6" -> 6 [] c = "7" -> 7 [] c = "8" -> 8 [] OTHER -> 9

RECURSIVE StrInt(_)
StrInt(s) == IF s = <<>> THEN 0 ELSE 10 * StrInt(SubSeq(s, 1, Len(s) - 1)) + DigitVal(s[Len(s)])

LinksOf(store, company_id) ==
    {j \in 1..Len(store.links) : store.links[j].company_id = company_id}

\* The rows of a store are those one invocation on list ms produces.
OnlyRowsOf(store, ms) ==
    /\ Len(store.unified) = Len(ms)
    /\ Len(store.links) = 2 * Len(ms)
    /\ \A k \in 1..Len(ms) :
          /\ store.unified[k].abn = ms[k].abr.abn
          /\ store.unified[k].match_method = ms[k].method
          /\ store.unified[k].match_confidence = ms[k].score

\* C13: after the writer returns without error, for any list (the empty list
\* included) and any prior contents, the unified and link tables hold only the
\* rows of this invocation.
C13_ReturnReplacesWholeSet == WriterReturned => OnlyRowsOf(db, matches)

\* C14: after a commit for n candidates the store holds n unified rows and 2n
\* link rows, and every unified row has exactly two links on its company id,
\* one ABR link keyed by the abn and one COMMONCRAWL link keyed by the
\* mention's id.
C14_OneRowTwoLinks ==
    (WriterReturned /\ matches # <<>>) =>
        /\ Len(db.unified) = Len(matches)
        /\ Len(db.links) = 2 * Len(matches)
        /\ \A k \in 1..Len(matches) :
              LET row == db.unified[k]
                  mine == LinksOf(db, row.company_id)
              IN /\ \A k2 \in 1..Len(matches) :
                        db.unified[k2].company_id = row.company_id => k2 = k
                 /\ row.abn = matches[k].abr.abn
                 /\ Cardinality(mine) = 2
                 /\ \E a \in mine, c \in mine :
                        /\ db.links[a].source_system = "ABR"
                        /\ db.links[a].source_key = matches[k].abr.abn
                        /\ db.links[c].source_system = "COMMONCRAWL"
                        /\ StrInt(db.links[c].source_key) = matches[k].cc.commoncrawl_id

C14_Witness ==
    /\ WriterReturned
    /\ Len(matches) = 2
    /\ db_before = OldStore
    /\ Len(db.unified) = 2
    /\ Len(db.links) = 4
    /\ matches[1].cc.commoncrawl_id # matches[2].cc.commoncrawl_id

\* C15: the write is all-or-nothing.  The committed store is either what it
\* was before the call or the whole of this run's rows; a failed statement is
\* never swallowed (the call does not return), and once the error has been
\* re-raised the transaction is closed and none of the run's rows is committed.
C15_AllOrNothing ==
    /\ \/ db = db_before
       \/ /\ WriterReturned
          /\ wfail = "none"
          /\ OnlyRowsOf(db, matches)
    /\ wfail # "none" => wpc \in {"except", "raised"}
    /\ (WriterRaised /\ wfail \in RolledBackFailures) =>
          /\ ~txn.open
          /\ db = db_before

C15_Witness ==
    /\ WriterRaised
    /\ wfail \in {"unified", "link_abr", "link_cc"}
    /\ Len(matches) = 2
    /\ inserted_count = 1
    /\ db = db_before

\* C16 as stated: after a failed, rolled-back write both tables are empty.
C16_EmptyAfterRollback ==
    (WriterRaised /\ wfail \in RolledBackFailures) =>
        /\ db.unified = <<>>
        /\ db.links = <<>>

\* C16: after a failed, rolled-back write both tables hold exactly the rows
\* they held before the call (empty only if they were empty before), and the
\* id sequence is where it was.
C16_PriorContentsAfterRollback ==
    (WriterRaised /\ wfail \in RolledBackFailures) =>
        /\ db.unified = db_before.unified
        /\ db.links = db_before.links
        /\ db.next_id = db_before.next_id

C16_Witness ==
    /\ WriterRaised
    /\ wfail = "link_cc"
    /\ inserted_count = 1
    /\ db_before = OldStore
    /\ Len(db.unified) = 1
    /\ Len(db.links) = 2

\* ------------------------------------------------------------ main claims
MainEnded == main_pc \in {"done", "raised"}

\* C17 as stated: a run that has ended has emitted the summary.
C17_AlwaysEndsWithSummary == MainEnded => summary.emitted

\* How a run that has ended came to its end.
StagingReadFailed == main_pc = "raised" /\ mpc = "idle"
ReviewRaised == main_pc = "raised" /\ rpc = "raised"
WriteRaised == main_pc = "raised" /\ wpc = "raised" /\ wfail # "none"

\* What a run that has ended shows: the summary exactly when no exception
\* left main, with the counts of the lists main holds.
EndsWithSummaryUnlessRaised ==
    MainEnded =>
        /\ summary.emitted <=> (main_pc = "done" /\ wpc = "returned" /\ wfail = "none")
        /\ ~summary.emitted <=> (StagingReadFailed \/ ReviewRaised \/ WriteRaised)
        /\ summary.emitted =>
              /\ summary.high_conf = Len(high_conf_matches)
              /\ summary.llm_approved = Len(llm_approved)
              /\ summary.written = Len(high_conf_matches) + Len(llm_approved)
              /\ summary.ambiguous = Len(still_ambiguous)
              /\ summary.unmatched = Len(unmatched_cc)

\* The review asks about each item at most once, in order.
NoItemRepeated == \A k \in 1..Len(calls) : calls[k] = k /\ k <= Len(to_review)

\* C17: a run of main in which every call to the store, the oracle and the
\* file system returns or raises ends; a run that has ended emitted the
\* summary of counts exactly when no exception left main, and ended with the
\* propagated error and no summary when the staging read, the creation of the
\* log directory or the write raised; the review never asks about an item
\* twice.
C17_EndsIfCallsReturnSummaryUnlessRaised ==
    /\ WF_vars(MainExternalCalls) => <>MainEnded
    /\ []EndsWithSummaryUnlessRaised
    /\ []NoItemRepeated

\* C17 witness: a run in which an oracle call raised and another item was
\* accepted ended with the summary, over a store that held earlier rows.
C17_Witness ==
    /\ main_pc = "done"
    /\ summary.emitted
    /\ Len(outcomes) = 2
    /\ outcomes[1].call = "raise"
    /\ summary.llm_approved = 1
    /\ summary.written = 1
    /\ Len(db.unified) = 1
    /\ db_before = OldStore

====
